---- MODULE Spec2Model ----
(***************************************************************************)
(* A model of the Lookit study platform's form validation and template     *)
(* helper tags (studies/forms.py, exp/templatetags/exp_extras.py and       *)
(* web/templatetags/web_extras.py) and of its two data migrations          *)
(* (studies/migrations/0056 and 0093).                                     *)
(***************************************************************************)
EXTENDS Integers, Sequences, FiniteSets, TLC

VARIABLES
    cleaned_data,   \* BaseStudyForm.cleaned_data: age field name -> integer (a missing key is absent)
    clean_outcome,  \* how the last BaseStudyForm.clean call ended
    clean_message,  \* the message of the ValidationError it raised, "" when none
    GET,            \* request.GET of the current request: a QueryDict
    kwargs,         \* the overrides the template passes to query_transform
    qt_output,      \* the query string query_transform returned for this request
    qt_previous,    \* the query string it returned for the request before
    qt_pc,          \* "request": the tag is about to run; "rendered": it has run
    qt_round,       \* the number of requests so far
    nodelist,       \* BreadcrumbNode.nodelist: the nodes the tag holds, in order
    bc_before,      \* the nodelist as it was when the last render began
    bc_outcome,     \* how the last render ended
    bc_result,      \* the elements of result the last render joined into its output
    bc_previous,    \* outcome and result of the render before the last
    bc_renders,     \* the number of renders so far
    nav_call,       \* the arguments of the last nav_link call, html_classes as it was passed
    nav_outcome,    \* how the last nav_link call ended
    nav_html,       \* the parts of the HTML it returned
    caller_classes, \* a list of classes the template context holds and may pass as html_classes
    nav_calls,      \* the number of nav_link and dropdown_item calls so far
    form,           \* the form class of the submission: "StudyForm" or "StudyBuildForm"
    structure,      \* the text submitted in the structure field
    st_outcome,     \* how clean_structure ended for it
    st_message,     \* the message of the ValidationError it raised, "" when none
    st_cleaned,     \* the value clean_structure returned
    study_structure, \* the structure the Study record holds in the database
    study_types,    \* the StudyType table as the migration's connection sees it: pk -> name
    names_history,  \* the study_type_names calls so far: direction, table before, outcome
    studies,        \* the Study table in queryset order: rows of pk and salt
    has_salt_field, \* whether the migration state's Study model has the salt field
    salt_before,    \* the Study table as it was when the last salt operation began
    salt_op,        \* the last operation of migration 0056: "gen_salt" or "noop"
    salt_generated, \* the values its uuid.uuid4() calls returned, in call order
    salt_writes,    \* the rows its row.save() calls wrote, in call order
    salt_ops        \* the number of operations of migration 0056 so far

ageVars == <<cleaned_data, clean_outcome, clean_message>>
qtVars == <<GET, kwargs, qt_output, qt_previous, qt_pc, qt_round>>

bcVars == <<nodelist, bc_before, bc_outcome, bc_result, bc_previous, bc_renders>>

navVars == <<nav_call, nav_outcome, nav_html, caller_classes, nav_calls>>

stVars == <<form, structure, st_outcome, st_message, st_cleaned, study_structure>>

typeVars == <<study_types, names_history>>

saltVars == <<studies, has_salt_field, salt_before, salt_op, salt_generated,
              salt_writes, salt_ops>>

migVars == <<typeVars, saltVars>>

vars == <<ageVars, qtVars, bcVars, navVars, stVars, migVars>>

(***************************************************************************)
(* Python floats (IEEE 754 binary64), as the expression of forms.py:31     *)
(* uses them.  A value is a fixed-point bit vector, most significant bit   *)
(* first: bit i has weight 2^(IntBits - i).  Every double the expression   *)
(* produces for the modelled inputs is a multiple of 2^(-FracBits).        *)
(***************************************************************************)
Precision == 53
IntBits == 4
FracBits == 62
Width == IntBits + FracBits

\* The bit vector with the given bit at each position, as a tuple.
Zeros(k) == [i \in 1..k |-> 0] \o <<>>

\* float(n) for an integer 0 <= n < 2^IntBits: exact.
FloatFromInt(n) ==
    [i \in 1..IntBits |-> (n \div 2^(IntBits - i)) % 2] \o Zeros(FracBits)

\* The exact sum of two bit vectors, from the last bit up (the carry out of
\* bit 1 is lost: the modelled values stay below 2^IntBits).
RECURSIVE AddFrom(_, _, _, _)
AddFrom(a, b, i, carry) ==
    IF i = 0 THEN <<>>
    ELSE LET s == a[i] + b[i] + carry
         IN  IF s >= 2
             THEN Append(AddFrom(a, b, i - 1, 1), s % 2)
             ELSE Append(AddFrom(a, b, i - 1, 0), s % 2)

ExactAdd(a, b) == AddFrom(a, b, Width, 0)

\* 2^(IntBits - p) as a bit vector.
UnitAt(p) == Zeros(p - 1) \o <<1>> \o Zeros(Width - p)

\* Round to nearest, ties to even, at Precision significant bits.  sticky says
\* that the exact value exceeds the bit vector by less than its last bit.
RoundNearestEven(x, sticky) ==
    IF \A i \in 1..Width : x[i] = 0 THEN x
    ELSE
        LET lead == CHOOSE i \in 1..Width :
                        x[i] = 1 /\ \A j \in 1..(i - 1) : x[j] = 0
            last == lead + Precision - 1
        IN  IF last >= Width THEN x
            ELSE
                LET guard == x[last + 1]
                    rest == sticky \/ \E i \in (last + 2)..Width : x[i] = 1
                    kept == SubSeq(x, 1, last) \o Zeros(Width - last)
                IN  IF guard = 1 /\ (rest \/ x[last] = 1)
                    THEN ExactAdd(kept, UnitAt(last))
                    ELSE kept

\* a + b on floats: the exact sum, rounded.
FloatAdd(a, b) == RoundNearestEven(ExactAdd(a, b), FALSE)

\* (n * 2^k) % d, by repeated squaring.
RECURSIVE ShiftMod(_, _, _)
ShiftMod(n, k, d) ==
    IF k = 0 THEN n % d
    ELSE IF k % 2 = 1 THEN (2 * ShiftMod(n, k - 1, d)) % d
    ELSE (ShiftMod(n, k \div 2, d) * ShiftMod(1, k \div 2, d)) % d

\* n / d for integers n >= 0, d > 0 (Python's true division): the exact
\* quotient by long division (bit j of the fraction is the quotient of twice
\* the remainder left after j - 1 bits), rounded.
FloatTrueDiv(n, d) ==
    LET quot == [i \in 1..IntBits |-> ((n \div d) \div 2^(IntBits - i)) % 2]
                \o [j \in 1..FracBits |-> (2 * ShiftMod(n, j - 1, d)) \div d]
    IN  RoundNearestEven(quot, ShiftMod(n, FracBits, d) # 0)

\* a > b on floats.
FloatGreater(a, b) ==
    \E i \in 1..Width :
        /\ a[i] > b[i]
        /\ \A j \in 1..(i - 1) : a[j] = b[j]

(***************************************************************************)
(* studies/forms.py: BaseStudyForm.clean                                   *)
(***************************************************************************)
MaxYears == 2
AgeYears == 0..MaxYears
AgeMonths == {0, 1, 12, 13}
AgeDays == {0, 1, 365, 730}
Absent == 0 - 1

AgeFields ==
    {"min_age_days", "min_age_months", "min_age_years",
     "max_age_days", "max_age_months", "max_age_years"}

AgeErrorMessage == "The maximum age must be greater than the minimum age."

\* dict.get: the value, or None (modelled as the key being absent).
HasKey(data, key) == key \in DOMAIN data

\* years + months/12 + days/365, evaluated left to right in floats.
AgeTotal(years, months, days) ==
    FloatAdd(FloatAdd(FloatFromInt(years), FloatTrueDiv(months, 12)),
             FloatTrueDiv(days, 365))

MinAgeExceedsMax(data) ==
    FloatGreater(
        AgeTotal(data["min_age_years"], data["min_age_months"], data["min_age_days"]),
        AgeTotal(data["max_age_years"], data["max_age_months"], data["max_age_days"]))

\* The form's cleaned data for one submission, each age field holding a value
\* or Absent: a field that failed its own validation is missing from it.
SubmittedData(miny, minm, mind, maxy, maxm, maxd) ==
    LET all == [k \in AgeFields |->
                    CASE k = "min_age_years" -> miny
                      [] k = "min_age_months" -> minm
                      [] k = "min_age_days" -> mind
                      [] k = "max_age_years" -> maxy
                      [] k = "max_age_months" -> maxm
                      [] k = "max_age_days" -> maxd]
    IN  [k \in {f \in AgeFields : all[f] # Absent} |-> all[k]]

\* BaseStudyForm.clean on the submitted data.
Clean ==
    /\ clean_outcome = "none"
    /\ IF \E k \in AgeFields : ~HasKey(cleaned_data, k)
       THEN \* None in the arithmetic of line 31
            /\ clean_outcome' = "TypeError"
            /\ clean_message' = ""
       ELSE IF MinAgeExceedsMax(cleaned_data)
       THEN /\ clean_outcome' = "ValidationError"
            /\ clean_message' = AgeErrorMessage
       ELSE /\ clean_outcome' = "returned"
            /\ clean_message' = ""
    /\ UNCHANGED <<cleaned_data, qtVars, bcVars, navVars, stVars, migVars>>

AgeIdle ==
    /\ cleaned_data = [k \in AgeFields |-> 0]
    /\ clean_outcome = "none"
    /\ clean_message = ""

(***************************************************************************)
(* exp/templatetags/exp_extras.py: query_transform                         *)
(*                                                                         *)
(* A string is a sequence of characters.  A value is a Python object: a    *)
(* str, an int or None.  A QueryDict is a sequence of entries, one per     *)
(* key in first-seen order, each holding the key's list of values.         *)
(***************************************************************************)
StrValue(chars) == [t |-> "str", s |-> chars, n |-> 0]
IntValue(k) == [t |-> "int", s |-> <<>>, n |-> k]
None == [t |-> "none", s |-> <<>>, n |-> 0]

\* Python's truth value of an object.
Truthy(v) ==
    CASE v.t = "str" -> v.s # <<>>
      [] v.t = "int" -> v.n # 0
      [] OTHER -> FALSE

Digit(d) == <<"0", "1", "2", "3", "4", "5", "6", "7", "8", "9">>[d + 1]

\* str(v), as urlencode applies it to every value.
RECURSIVE Digits(_)
Digits(k) == IF k < 10 THEN <<Digit(k)>> ELSE Append(Digits(k \div 10), Digit(k % 10))

Str(v) ==
    CASE v.t = "str" -> v.s
      [] v.t = "int" -> Digits(v.n)
      [] OTHER -> <<"N", "o", "n", "e">>

KeyChars(name) ==
    CASE name = "state" -> <<"s", "t", "a", "t", "e">>
      [] name = "page" -> <<"p", "a", "g", "e">>
      [] name = "match" -> <<"m", "a", "t", "c", "h">>
      [] name = "sort" -> <<"s", "o", "r", "t">>
      [] name = "q" -> <<"q">>

\* kwargs.get(name): the value, or None.
KwargsGet(kw, name) == IF name \in DOMAIN kw THEN kw[name] ELSE None

HasEntry(qd, key) == \E i \in 1..Len(qd) : qd[i].key = key

\* QueryDict.getlist(key).
GetList(qd, key) ==
    IF HasEntry(qd, key)
    THEN qd[CHOOSE i \in 1..Len(qd) : qd[i].key = key].vals
    ELSE <<>>

\* QueryDict.appendlist(key, value).
AppendList(qd, key, value) ==
    IF HasEntry(qd, key)
    THEN [i \in 1..Len(qd) |->
            IF qd[i].key = key
            THEN [key |-> key, vals |-> Append(qd[i].vals, value)]
            ELSE qd[i]]
    ELSE Append(qd, [key |-> key, vals |-> <<value>>])

\* SetItem as a bug would have it: the value joins the key's list.
SetItemAppends(qd, key, value) == AppendList(qd, key, value)

\* SetItem as a bug would have it: the value goes in front of the key's list.
SetItemPrepends(qd, key, value) ==
    IF HasEntry(qd, key)
    THEN [i \in 1..Len(qd) |->
            IF qd[i].key = key
            THEN [key |-> key, vals |-> <<value>> \o qd[i].vals]
            ELSE qd[i]]
    ELSE Append(qd, [key |-> key, vals |-> <<value>>])

\* updated[key] = value: the key's list becomes [value]; a new key goes last.
SetItem(qd, key, value) ==
    IF HasEntry(qd, key)
    THEN [i \in 1..Len(qd) |->
            IF qd[i].key = key THEN [key |-> key, vals |-> <<value>>] ELSE qd[i]]
    ELSE Append(qd, [key |-> key, vals |-> <<value>>])

\* Percent-encoding of one character (quote_plus).
QuoteChar(c) ==
    CASE c = " " -> <<"+">>
      [] c = "&" -> <<"%", "2", "6">>
      [] c = "=" -> <<"%", "3", "D">>
      [] c = "+" -> <<"%", "2", "B">>
      [] c = "%" -> <<"%", "2", "5">>
      [] OTHER -> <<c>>

RECURSIVE Quote(_)
Quote(chars) ==
    IF chars = <<>> THEN <<>> ELSE QuoteChar(Head(chars)) \o Quote(Tail(chars))

\* The character a %XX escape stands for.
Unhex(h1, h2) ==
    CASE h1 = "2" /\ h2 = "6" -> "&"
      [] h1 = "3" /\ h2 = "D" -> "="
      [] h1 = "2" /\ h2 = "B" -> "+"
      [] h1 = "2" /\ h2 = "5" -> "%"
      [] OTHER -> "?"

\* unquote_plus.
RECURSIVE Unquote(_)
Unquote(chars) ==
    IF chars = <<>> THEN <<>>
    ELSE IF Head(chars) = "+" THEN <<" ">> \o Unquote(Tail(chars))
    ELSE IF Head(chars) = "%" /\ Len(chars) >= 3
         THEN <<Unhex(chars[2], chars[3])>> \o Unquote(SubSeq(chars, 4, Len(chars)))
    ELSE <<Head(chars)>> \o Unquote(Tail(chars))

\* "&".join(parts).
RECURSIVE JoinAmp(_)
JoinAmp(parts) ==
    IF parts = <<>> THEN <<>>
    ELSE IF Len(parts) = 1 THEN parts[1]
    ELSE parts[1] \o <<"&">> \o JoinAmp(Tail(parts))

\* The key=value pairs of one entry, one per value of the key.
EntryPairs(e) ==
    [j \in 1..Len(e.vals) |-> Quote(e.key) \o <<"=">> \o Quote(Str(e.vals[j]))]

RECURSIVE AllPairs(_)
AllPairs(qd) ==
    IF qd = <<>> THEN <<>> ELSE EntryPairs(Head(qd)) \o AllPairs(Tail(qd))

\* QueryDict.urlencode().
UrlEncode(qd) == JoinAmp(AllPairs(qd))

\* chars.split(sep).
RECURSIVE Split(_, _)
Split(chars, sep) ==
    IF \A i \in 1..Len(chars) : chars[i] # sep THEN <<chars>>
    ELSE LET i == CHOOSE k \in 1..Len(chars) :
                      chars[k] = sep /\ \A j \in 1..(k - 1) : chars[j] # sep
         IN  <<SubSeq(chars, 1, i - 1)>> \o Split(SubSeq(chars, i + 1, Len(chars)), sep)

\* One name=value field of a query string, unquoted (a field without "="
\* has the empty value).
ParseField(field) ==
    IF \E i \in 1..Len(field) : field[i] = "="
    THEN LET i == CHOOSE k \in 1..Len(field) :
                      field[k] = "=" /\ \A j \in 1..(k - 1) : field[j] # "="
         IN  <<Unquote(SubSeq(field, 1, i - 1)),
               Unquote(SubSeq(field, i + 1, Len(field)))>>
    ELSE <<Unquote(field), <<>>>>

\* QueryDict(query_string): every non-empty field, appended in order.
RECURSIVE ParseFields(_, _)
ParseFields(fields, qd) ==
    IF fields = <<>> THEN qd
    ELSE IF Head(fields) = <<>> THEN ParseFields(Tail(fields), qd)
    ELSE LET kv == ParseField(Head(fields))
         IN  ParseFields(Tail(fields), AppendList(qd, kv[1], StrValue(kv[2])))

ParseQueryString(chars) == ParseFields(Split(chars, "&"), <<>>)

\* Override as a bug would have it: every override given is applied, falsy or not.
OverrideIfGiven(updated, kw, name) ==
    IF name \in DOMAIN kw
    THEN SetItem(updated, KeyChars(name), KwargsGet(kw, name))
    ELSE updated

\* One "if kwargs.get(name): updated[name] = kwargs.get(name)" step.
Override(updated, kw, name) ==
    IF Truthy(KwargsGet(kw, name))
    THEN SetItem(updated, KeyChars(name), KwargsGet(kw, name))
    ELSE updated

\* query_transform(request, **kwargs).
query_transform(get, kw) ==
    LET updated0 == get
        updated1 == Override(updated0, kw, "state")
        updated2 == Override(updated1, kw, "page")
        updated3 == Override(updated2, kw, "match")
        updated4 == Override(updated3, kw, "sort")
    IN  UrlEncode(updated4)

OverrideNames == {"state", "page", "match", "sort"}

MaxRounds == 2

\* The value lists a key of the incoming request may hold.
RequestValueLists ==
    {<<StrValue(<<"a">>)>>,
     <<StrValue(<<"b", " ", "&">>)>>,
     <<StrValue(<<"a">>), StrValue(<<"b", " ", "&">>)>>}

RequestKeys == {KeyChars("state"), KeyChars("page"), KeyChars("q")}

\* The QueryDicts of the incoming request: any keys, in any order.
RECURSIVE RequestsOver(_)
RequestsOver(keys) ==
    {<<>>} \cup
    UNION {{<<[key |-> k, vals |-> vl]>> \o rest :
                vl \in RequestValueLists, rest \in RequestsOver(keys \ {k})} :
           k \in keys}

\* What the template may pass for each override: nothing, a falsy value or
\* a truthy one.
OverrideChoices(name) ==
    CASE name = "state" -> {StrValue(<<>>), StrValue(<<"c", "=", "d">>)}
      [] name = "page" -> {IntValue(0), IntValue(2)}
      [] name = "match" -> {None, StrValue(<<"a">>)}
      [] name = "sort" -> {StrValue(<<>>), StrValue(<<"+", "x">>)}

KwargsChoices ==
    UNION {{kw \in [given -> UNION {OverrideChoices(n) : n \in given}] :
                \A n \in given : kw[n] \in OverrideChoices(n)} :
           given \in SUBSET OverrideNames}

\* The tag runs while the page of the current request is rendered.
QueryTransform ==
    /\ qt_pc = "request"
    /\ qt_output' = query_transform(GET, kwargs)
    /\ qt_previous' = qt_output
    /\ qt_pc' = "rendered"
    /\ UNCHANGED <<GET, kwargs, qt_round, ageVars, bcVars, navVars, stVars, migVars>>

\* The link is followed: the next request carries the query string the tag
\* returned, and the same template renders it with the same overrides.
FollowLink ==
    /\ qt_pc = "rendered"
    /\ qt_round < MaxRounds
    /\ GET' = ParseQueryString(qt_output)
    /\ qt_round' = qt_round + 1
    /\ qt_pc' = "request"
    /\ UNCHANGED <<kwargs, qt_output, qt_previous, ageVars, bcVars, navVars, stVars, migVars>>

QtIdle ==
    /\ GET = <<>>
    /\ kwargs = <<>>
    /\ qt_output = <<>>
    /\ qt_previous = <<>>
    /\ qt_pc = "request"
    /\ qt_round = 1

(***************************************************************************)
(* web/templatetags/web_extras.py: BreadcrumbNode                          *)
(*                                                                         *)
(* A node is an object of the template: id tells nodes apart, text is what *)
(* node.render(context) returns for the one context of the model.          *)
(***************************************************************************)
MaxNodes == 5
MaxRenders == 2

NodeTexts == {" ", "/a", "A", "/b", "B", "Current"}

\* not text.strip()
IsBlank(text) == text \in {"", " "}

\* list.remove(node): the first element equal to node goes.
ListRemove(list, node) ==
    LET i == CHOOSE k \in 1..Len(list) :
                  list[k] = node /\ \A j \in 1..(k - 1) : list[j] # node
    IN  SubSeq(list, 1, i - 1) \o SubSeq(list, i + 1, Len(list))

\* The loop of lines 284-286: the iterator holds an index into the list that
\* the body shortens, so the node after a removed one is never visited.
RECURSIVE RemoveEmptyNodes(_, _)
RemoveEmptyNodes(list, i) ==
    IF i > Len(list) THEN list
    ELSE IF IsBlank(list[i].text)
         THEN RemoveEmptyNodes(ListRemove(list, list[i]), i + 1)
         ELSE RemoveEmptyNodes(list, i + 1)

\* pairwise as a bug would have it: a trailing single element is paired with
\* itself instead of being left out.
PairwisePadded(list) ==
    [k \in 1..((Len(list) + 1) \div 2) |->
        <<list[2 * k - 1], list[IF 2 * k <= Len(list) THEN 2 * k ELSE 2 * k - 1]>>]

\* pairwise: zip(a, a) over one iterator: (s0, s1), (s2, s3), ...
Pairwise(list) ==
    [k \in 1..(Len(list) \div 2) |-> <<list[2 * k - 1], list[2 * k]>>]

\* What lines 297-299 append for one pair: a list item holding a link.
LinkItems(pair) ==
    <<[tag |-> "li", href |-> pair[1], label |-> pair[2]]>>

RECURSIVE AllLinkItems(_)
AllLinkItems(pairs) ==
    IF pairs = <<>> THEN <<>>
    ELSE LinkItems(Head(pairs)) \o AllLinkItems(Tail(pairs))

NoNode == [id |-> 0, text |-> ""]

\* BreadcrumbNode.render(context) on a node holding list: how it ends, the
\* elements it joins, and the nodelist it leaves behind.
render(list) ==
    IF list = <<>>
    THEN [outcome |-> "returned", result |-> <<>>, nodelist |-> list]
    ELSE LET remaining == RemoveEmptyNodes(list, 1)
         IN  IF remaining = <<>>
             THEN \* pop from an empty list
                  [outcome |-> "IndexError", result |-> <<>>, nodelist |-> remaining]
             ELSE LET last_node == remaining[Len(remaining)]
                      popped == SubSeq(remaining, 1, Len(remaining) - 1)
                  IN  [outcome |-> "returned",
                       result |->
                           <<[tag |-> "nav", href |-> NoNode, label |-> NoNode],
                             [tag |-> "ol", href |-> NoNode, label |-> NoNode]>>
                           \o AllLinkItems(Pairwise(popped))
                           \o <<[tag |-> "li-current", href |-> NoNode, label |-> last_node],
                                [tag |-> "end", href |-> NoNode, label |-> NoNode]>>,
                       nodelist |-> popped]

\* The template is rendered once more: the same BreadcrumbNode, the same context.
Render ==
    /\ bc_renders < MaxRenders
    /\ LET r == render(nodelist)
       IN  /\ nodelist' = r.nodelist
           /\ bc_outcome' = r.outcome
           /\ bc_result' = r.result
    /\ bc_before' = nodelist
    /\ bc_previous' = [outcome |-> bc_outcome, result |-> bc_result]
    /\ bc_renders' = bc_renders + 1
    /\ UNCHANGED <<ageVars, qtVars, navVars, stVars, migVars>>

BcIdle ==
    /\ nodelist = <<>>
    /\ bc_before = <<>>
    /\ bc_outcome = "none"
    /\ bc_result = <<>>
    /\ bc_previous = [outcome |-> "none", result |-> <<>>]
    /\ bc_renders = 0

(***************************************************************************)
(* web/templatetags/web_extras.py: active_nav, nav_link, dropdown_item     *)
(*                                                                         *)
(* A URL or path is a sequence of pieces, so that url + queryString is     *)
(* concatenation and "/studies" differs from "/studies/".                  *)
(***************************************************************************)
MaxCalls == 2

HomeUrl == <<"/">>
StudiesUrl == <<"/", "studies", "/">>
StudiesNoSlash == <<"/", "studies">>

RequestPaths == {HomeUrl, StudiesUrl, StudiesNoSlash}

\* The URL names the URLconf knows.
UrlNames == {<<"web:home">>, <<"web:studies-list">>}

\* django.urls.reverse(url_name) for a known name.
reverse(url_name) ==
    CASE url_name = <<"web:home">> -> HomeUrl
      [] url_name = <<"web:studies-list">> -> StudiesUrl

\* What a template passes as url_name: a name to reverse, known or not, or
\* with reverse_url=False a URL.
NavTargets ==
    {[url_name |-> n, reverse_url |-> TRUE] : n \in UrlNames \cup {<<"web:missing">>}}
    \cup {[url_name |-> u, reverse_url |-> FALSE] : u \in {StudiesUrl, StudiesNoSlash}}

\* queryString: None or "" (both <<>>), or a query string.
QueryStrings == {<<>>, <<"?", "tab=1">>}

DefaultClasses == <<"nav-link", "navbar-link", "link-secondary", "text-center", "px-3">>
ActiveClasses == <<"active", "btn-secondary">>
AriaCurrentPage == " aria-current=\"page\""

\* active_nav as a bug would have it: a trailing slash of the URL is ignored.
active_nav_ignoring_slash(request_path, url) ==
    \/ request_path = url
    \/ request_path \o <<"/">> = url

\* active_nav(request, url).
active_nav(request_path, url) == request_path = url

\* nav_link's body from line 127 on, html_classes being the list it works on:
\* how it ends, the parts of the anchor, and html_classes as it leaves it.
nav_link(request_path, target, html_classes, queryString, list) ==
    IF target.reverse_url /\ target.url_name \notin UrlNames
    THEN [outcome |-> "NoReverseMatch", html_classes |-> html_classes,
          html |-> [classes |-> <<>>, aria_current |-> "", href |-> <<>>, li |-> FALSE]]
    ELSE LET url == IF target.reverse_url THEN reverse(target.url_name) ELSE target.url_name
             active == active_nav(request_path, url)
             classes == IF active THEN html_classes \o ActiveClasses ELSE html_classes
             aria_current == IF active THEN AriaCurrentPage ELSE ""
             href == IF queryString # <<>> THEN url \o queryString ELSE url
         IN  [outcome |-> "returned", html_classes |-> classes,
              html |-> [classes |-> classes, aria_current |-> aria_current,
                        href |-> href, li |-> list]]

\* {% nav_link request url_name text ... %}: html_classes is left out (None:
\* the default list, made anew) or is the list the context holds, which
\* extend() then changes in place.
NavLink ==
    /\ nav_calls < MaxCalls
    /\ \E request_path \in RequestPaths, target \in NavTargets,
          queryString \in QueryStrings, list \in BOOLEAN, pass_list \in BOOLEAN :
          LET html_classes == IF pass_list THEN caller_classes ELSE DefaultClasses
              r == nav_link(request_path, target, html_classes, queryString, list)
          IN  /\ nav_call' = [request_path |-> request_path, target |-> target,
                              html_classes |-> html_classes,
                              queryString |-> queryString, list |-> list]
              /\ nav_outcome' = r.outcome
              /\ nav_html' = r.html
              /\ caller_classes' = IF pass_list THEN r.html_classes ELSE caller_classes
    /\ nav_calls' = nav_calls + 1
    /\ UNCHANGED <<ageVars, qtVars, bcVars, stVars, migVars>>

\* {% dropdown_item request url_name text %}: nav_link with a new
\* ["dropdown-item"] list.
DropdownItem ==
    /\ nav_calls < MaxCalls
    /\ \E request_path \in RequestPaths, url_name \in UrlNames :
          LET target == [url_name |-> url_name, reverse_url |-> TRUE]
              r == nav_link(request_path, target, <<"dropdown-item">>, <<>>, FALSE)
          IN  /\ nav_call' = [request_path |-> request_path, target |-> target,
                              html_classes |-> <<"dropdown-item">>,
                              queryString |-> <<>>, list |-> FALSE]
              /\ nav_outcome' = r.outcome
              /\ nav_html' = r.html
    /\ nav_calls' = nav_calls + 1
    /\ UNCHANGED <<caller_classes, ageVars, qtVars, bcVars, stVars, migVars>>

NavIdle ==
    /\ nav_call = [request_path |-> HomeUrl,
                   target |-> [url_name |-> <<"web:home">>, reverse_url |-> TRUE],
                   html_classes |-> <<>>, queryString |-> <<>>, list |-> FALSE]
    /\ nav_outcome = "none"
    /\ nav_html = [classes |-> <<>>, aria_current |-> "", href |-> <<>>, li |-> FALSE]
    /\ caller_classes = <<"nav-link">>
    /\ nav_calls = 0

(***************************************************************************)
(* studies/forms.py: StudyForm.clean_structure and                         *)
(* StudyBuildForm.clean_structure                                          *)
(*                                                                         *)
(* A text is a sequence of tokens: the punctuation of JSON, a digit, a     *)
(* string literal, the word NaN and white space.                           *)
(***************************************************************************)
MaxTokens == 4

JsonTokens == {"[", "]", "{", "}", ":", ",", "1", "\"k\"", "NaN", " "}

StructureForms == {"StudyForm", "StudyBuildForm"}

\* The message each form raises.
InvalidJsonMessage(f) ==
    IF f = "StudyForm"
    THEN "Save failed due to invalid JSON! Please use valid JSON and save again. If you reload this page, all changes will be lost."
    ELSE "Invalid JSON"

\* str.strip(), which the CharField applies before clean_structure runs.
RECURSIVE StripLeft(_)
StripLeft(text) ==
    IF text # <<>> /\ Head(text) = " " THEN StripLeft(Tail(text)) ELSE text

RECURSIVE StripRight(_)
StripRight(text) ==
    IF text # <<>> /\ text[Len(text)] = " "
    THEN StripRight(SubSeq(text, 1, Len(text) - 1))
    ELSE text

Strip(text) == StripRight(StripLeft(text))

\* The first position from i on that holds no white space.
RECURSIVE SkipWs(_, _)
SkipWs(text, i) ==
    IF i <= Len(text) /\ text[i] = " " THEN SkipWs(text, i + 1) ELSE i

TokenAt(text, i) == IF i >= 1 /\ i <= Len(text) THEN text[i] ELSE "<end>"

\* The first position from i on that holds no digit: a number is a run of digits.
RECURSIVE DigitsEnd(_, _)
DigitsEnd(text, i) ==
    IF i <= Len(text) /\ text[i] = "1" THEN DigitsEnd(text, i + 1) ELSE i

JsonFail == [ok |-> FALSE, next |-> 0, value |-> <<>>]
JsonOk(value, next) == [ok |-> TRUE, next |-> next, value |-> value]

\* dict[key] = value on a sequence of <<key, value>> pairs.
DictSet(pairs, key, value) ==
    IF \E i \in 1..Len(pairs) : pairs[i][1] = key
    THEN [i \in 1..Len(pairs) |-> IF pairs[i][1] = key THEN <<key, value>> ELSE pairs[i]]
    ELSE Append(pairs, <<key, value>>)

\* json's scanner: the value that starts at position i.  allow_nan is the
\* decoder's acceptance of NaN (and the infinities), which json.loads has.
RECURSIVE ScanValue(_, _, _), ScanArrayItems(_, _, _, _), ScanObjectMembers(_, _, _, _)
ScanValue(text, i, allow_nan) ==
    LET tok == TokenAt(text, i)
    IN  CASE tok = "\"k\"" -> JsonOk(<<"str", "k">>, i + 1)
          [] tok = "1" ->
                LET end == DigitsEnd(text, i)
                IN  JsonOk(<<"int", SubSeq(text, i, end - 1)>>, end)
          [] tok = "NaN" ->
                IF allow_nan THEN JsonOk(<<"float", "nan">>, i + 1) ELSE JsonFail
          [] tok = "[" ->
                LET j == SkipWs(text, i + 1)
                IN  IF TokenAt(text, j) = "]" THEN JsonOk(<<"list", <<>>>>, j + 1)
                    ELSE ScanArrayItems(text, j, allow_nan, <<>>)
          [] tok = "{" ->
                LET j == SkipWs(text, i + 1)
                IN  IF TokenAt(text, j) = "}" THEN JsonOk(<<"dict", <<>>>>, j + 1)
                    ELSE ScanObjectMembers(text, j, allow_nan, <<>>)
          [] OTHER -> JsonFail

\* The items of an array from position i, those before it being in items.
ScanArrayItems(text, i, allow_nan, items) ==
    LET v == ScanValue(text, i, allow_nan)
    IN  IF ~v.ok THEN JsonFail
        ELSE LET j == SkipWs(text, v.next)
                 tok == TokenAt(text, j)
             IN  IF tok = "]" THEN JsonOk(<<"list", Append(items, v.value)>>, j + 1)
                 ELSE IF tok = ","
                 THEN ScanArrayItems(text, SkipWs(text, j + 1), allow_nan,
                                     Append(items, v.value))
                 ELSE JsonFail

\* The members of an object from position i, which must hold a key.
ScanObjectMembers(text, i, allow_nan, pairs) ==
    IF TokenAt(text, i) # "\"k\"" THEN JsonFail
    ELSE LET c == SkipWs(text, i + 1)
         IN  IF TokenAt(text, c) # ":" THEN JsonFail
             ELSE LET v == ScanValue(text, SkipWs(text, c + 1), allow_nan)
                  IN  IF ~v.ok THEN JsonFail
                      ELSE LET j == SkipWs(text, v.next)
                               tok == TokenAt(text, j)
                               now == DictSet(pairs, "k", v.value)
                           IN  IF tok = "}" THEN JsonOk(<<"dict", now>>, j + 1)
                               ELSE IF tok = ","
                               THEN ScanObjectMembers(text, SkipWs(text, j + 1),
                                                      allow_nan, now)
                               ELSE JsonFail

\* JSONDecoder.decode: one value, white space around it, nothing after it.
JsonDecode(text, allow_nan) ==
    LET v == ScanValue(text, SkipWs(text, 1), allow_nan)
    IN  IF ~v.ok THEN JsonFail
        ELSE IF SkipWs(text, v.next) <= Len(text) THEN JsonFail
        ELSE v

\* json.loads(structure).
json_loads(text) == JsonDecode(text, TRUE)

\* clean_structure of form f, cleaned_data['structure'] being text.
clean_structure(f, text) ==
    LET json_data == json_loads(text)
    IN  IF json_data.ok
        THEN [outcome |-> "returned", message |-> "", value |-> json_data.value]
        ELSE [outcome |-> "ValidationError", message |-> InvalidJsonMessage(f),
              value |-> <<>>]

\* The view saves the form only when it is valid.
SaveIfValid(cleaned, stored) ==
    IF cleaned.outcome = "returned" THEN cleaned.value ELSE stored

\* Texts longer than MaxTokens that hold an object with a member and an
\* array of two items.
LongerTexts ==
    {<<"{", "\"k\"", ":", "1", "}">>, <<"{", "\"k\"", ":", "NaN", "}">>,
     <<"[", "1", ",", "\"k\"", "]">>, <<"{", "\"k\"", ":", "[", "]", "}">>,
     <<"{", "\"k\"", ":", "1", ",", "}">>,
     <<"{", "\"k\"", ":", "1", ",", "\"k\"", ":", "[", "]", "}">>}

NotYetStored == <<"unsaved">>

\* The form is submitted: the field is stripped and cleaned, and the record
\* is saved when the form is valid.
SubmitStructure ==
    /\ st_outcome = "none"
    /\ LET cleaned == clean_structure(form, Strip(structure))
       IN  /\ st_outcome' = cleaned.outcome
           /\ st_message' = cleaned.message
           /\ st_cleaned' = cleaned.value
           /\ study_structure' = SaveIfValid(cleaned, study_structure)
    /\ UNCHANGED <<form, structure, ageVars, qtVars, bcVars, navVars, migVars>>

StIdle ==
    /\ form = "StudyForm"
    /\ structure = <<>>
    /\ st_outcome = "none"
    /\ st_message = ""
    /\ st_cleaned = <<>>
    /\ study_structure = NotYetStored

(***************************************************************************)
(* studies/migrations/0093_remove_studytype_configuration.py               *)
(*                                                                         *)
(* The StudyType table is a function from primary key to name.  The model  *)
(* follows the table as the migration's own connection sees it when the    *)
(* function is left; what the migration executor does with the surrounding *)
(* transaction after an exception is not part of this file.                *)
(***************************************************************************)
MaxTypes == 3
MaxMigrations == 3

NAMES ==
    [external |->
        [old |-> "External",
         new |-> "External Study (Choose this if you are posting a study link rather using an experiment builder)"],
     efp |->
        [old |-> "Ember Frame Player (default)",
         new |-> "Lookit/Ember Frame Player (Default experiment builder)"]]

\* The names a row of the table may hold: the four of NAMES and one other.
TypeNames ==
    {NAMES.external.old, NAMES.external.new, NAMES.efp.old, NAMES.efp.new, "Other"}

\* study_type.objects.get(name=name): the one row with that name, or the
\* exception Django raises when there is none or more than one.
ObjectsGet(table, name) ==
    LET found == {pk \in DOMAIN table : table[pk] = name}
    IN  IF found = {} THEN [outcome |-> "DoesNotExist", pk |-> 0]
        ELSE IF Cardinality(found) > 1
        THEN [outcome |-> "MultipleObjectsReturned", pk |-> 0]
        ELSE [outcome |-> "found", pk |-> CHOOSE pk \in found : TRUE]

\* row.name = name; row.save()
SaveName(table, pk, name) == [table EXCEPT ![pk] = name]

\* study_type_names as a bug would have it: the External row is given the
\* EFP name.
study_type_names_same_key(table, from_key, to_key) ==
    LET efp == ObjectsGet(table, NAMES.efp[from_key])
    IN  IF efp.outcome # "found"
        THEN [outcome |-> efp.outcome, table |-> table]
        ELSE LET saved == SaveName(table, efp.pk, NAMES.efp[to_key])
                 external == ObjectsGet(saved, NAMES.external[from_key])
             IN  IF external.outcome # "found"
                 THEN [outcome |-> external.outcome, table |-> saved]
                 ELSE [outcome |-> "returned",
                       table |-> SaveName(saved, external.pk, NAMES.efp[to_key])]

\* study_type_names as a bug would have it: a row that is not found is
\* skipped.
study_type_names_skipping(table, from_key, to_key) ==
    LET efp == ObjectsGet(table, NAMES.efp[from_key])
        saved == IF efp.outcome = "found"
                 THEN SaveName(table, efp.pk, NAMES.efp[to_key])
                 ELSE table
        external == ObjectsGet(saved, NAMES.external[from_key])
    IN  [outcome |-> "returned",
         table |-> IF external.outcome = "found"
                   THEN SaveName(saved, external.pk, NAMES.external[to_key])
                   ELSE saved]

\* study_type_names(apps, from_key, to_key): how it ends and the table it
\* leaves.  Each save is in the table as soon as it is made.
study_type_names(table, from_key, to_key) ==
    LET efp == ObjectsGet(table, NAMES.efp[from_key])
    IN  IF efp.outcome # "found"
        THEN [outcome |-> efp.outcome, table |-> table]
        ELSE LET saved == SaveName(table, efp.pk, NAMES.efp[to_key])
                 external == ObjectsGet(saved, NAMES.external[from_key])
             IN  IF external.outcome # "found"
                 THEN [outcome |-> external.outcome, table |-> saved]
                 ELSE [outcome |-> "returned",
                       table |-> SaveName(saved, external.pk, NAMES.external[to_key])]

\* A migration runs only while none before it has failed: an exception
\* aborts the run.
NoneFailed == \A i \in 1..Len(names_history) : names_history[i].outcome = "returned"

\* update_study_type_names(apps, schema_editor)
UpdateStudyTypeNames ==
    /\ Len(names_history) < MaxMigrations
    /\ NoneFailed
    /\ LET r == study_type_names(study_types, "old", "new")
       IN  /\ study_types' = r.table
           /\ names_history' = Append(names_history,
                  [call |-> "update", from_key |-> "old", to_key |-> "new",
                   before |-> study_types, outcome |-> r.outcome])
    /\ UNCHANGED <<ageVars, qtVars, bcVars, navVars, stVars, saltVars>>

\* revert_study_type_names(apps, schema_editor)
RevertStudyTypeNames ==
    /\ Len(names_history) < MaxMigrations
    /\ NoneFailed
    /\ LET r == study_type_names(study_types, "new", "old")
       IN  /\ study_types' = r.table
           /\ names_history' = Append(names_history,
                  [call |-> "revert", from_key |-> "new", to_key |-> "old",
                   before |-> study_types, outcome |-> r.outcome])
    /\ UNCHANGED <<ageVars, qtVars, bcVars, navVars, stVars, saltVars>>

TypesIdle ==
    /\ study_types = <<>>
    /\ names_history = <<>>

(***************************************************************************)
(* studies/migrations/0056_populate_salt_values.py                         *)
(*                                                                         *)
(* The Study table is the sequence of its rows in the order the queryset   *)
(* yields them.  uuid.uuid4() is random: the values its calls return are   *)
(* an input of the operation, one per call.                                *)
(***************************************************************************)
MaxStudies == 3
MaxSaltOps == 2

UuidValues == {"uuid-a", "uuid-b", "uuid-c"}
NoSalt == "no salt column"

\* row.save(): the row with this pk takes the values of the instance.
SaveRow(table, row) ==
    [i \in 1..Len(table) |-> IF table[i].pk = row.pk THEN row ELSE table[i]] \o <<>>

\* gen_salt's loop as a bug would have it: uuid.uuid4() is called once,
\* before the loop, and every row is given that value.
SaltRowsOneUuid(rows, uuids, i, state) ==
    IF rows = <<>> THEN state
    ELSE [table |-> [k \in 1..Len(rows) |-> [pk |-> rows[k].pk, salt |-> uuids[1]]] \o <<>>,
          generated |-> <<uuids[1]>>,
          writes |-> [k \in 1..Len(rows) |-> [pk |-> rows[k].pk, salt |-> uuids[1]]] \o <<>>]

\* for row in MyModel.objects.all(): row.salt = uuid.uuid4(); row.save()
\* from the i-th row of the queryset on.
RECURSIVE SaltRows(_, _, _, _)
SaltRows(rows, uuids, i, state) ==
    IF i > Len(rows) THEN state
    ELSE LET row == [pk |-> rows[i].pk, salt |-> uuids[i]]
         IN  SaltRows(rows, uuids, i + 1,
                      [table |-> SaveRow(state.table, row),
                       generated |-> Append(state.generated, uuids[i]),
                       writes |-> Append(state.writes, row)])

\* gen_salt(apps, schema_editor): the table it leaves, the values uuid4
\* returned and the rows it saved.
gen_salt(table, field, uuids) ==
    IF field
    THEN SaltRows(table, uuids, 1, [table |-> table, generated |-> <<>>, writes |-> <<>>])
    ELSE [table |-> table, generated |-> <<>>, writes |-> <<>>]

\* migrations.RunPython(gen_salt, ...), forwards.
GenSalt ==
    /\ salt_ops < MaxSaltOps
    /\ \E uuids \in [1..Len(studies) -> UuidValues] :
          LET r == gen_salt(studies, has_salt_field, uuids)
          IN  /\ studies' = r.table
              /\ salt_generated' = r.generated
              /\ salt_writes' = r.writes
    /\ salt_before' = studies
    /\ salt_op' = "gen_salt"
    /\ salt_ops' = salt_ops + 1
    /\ UNCHANGED <<has_salt_field, ageVars, qtVars, bcVars, navVars, stVars, typeVars>>

\* migrations.RunPython.noop, the reverse_code.
ReverseNoop ==
    /\ salt_ops < MaxSaltOps
    /\ salt_before' = studies
    /\ salt_op' = "noop"
    /\ salt_generated' = <<>>
    /\ salt_writes' = <<>>
    /\ salt_ops' = salt_ops + 1
    /\ UNCHANGED <<studies, has_salt_field, ageVars, qtVars, bcVars, navVars, stVars,
                   typeVars>>

SaltIdle ==
    /\ studies = <<>>
    /\ has_salt_field = TRUE
    /\ salt_before = <<>>
    /\ salt_op = "none"
    /\ salt_generated = <<>>
    /\ salt_writes = <<>>
    /\ salt_ops = 0

MigIdle == TypesIdle /\ SaltIdle

(***************************************************************************)
(* The specifications: one per part of the program, the other parts idle.  *)
(***************************************************************************)
InitAge ==
    /\ \E miny, maxy \in AgeYears \cup {Absent} :
       \E minm, maxm \in AgeMonths \cup {Absent} :
       \E mind, maxd \in AgeDays \cup {Absent} :
            cleaned_data = SubmittedData(miny, minm, mind, maxy, maxm, maxd)
    /\ clean_outcome = "none"
    /\ clean_message = ""
    /\ QtIdle /\ BcIdle /\ NavIdle /\ StIdle /\ MigIdle

NextAge == Clean

SpecAge == InitAge /\ [][NextAge]_vars

InitQuery ==
    /\ GET \in RequestsOver(RequestKeys)
    /\ kwargs \in KwargsChoices
    /\ qt_output = <<>>
    /\ qt_previous = <<>>
    /\ qt_pc = "request"
    /\ qt_round = 1
    /\ AgeIdle /\ BcIdle /\ NavIdle /\ StIdle /\ MigIdle

NextQuery == QueryTransform \/ FollowLink

SpecQuery == InitQuery /\ [][NextQuery]_vars

InitBreadcrumb ==
    /\ \E n \in 0..MaxNodes :
       \E texts \in [1..n -> NodeTexts] :
            nodelist = [i \in 1..n |-> [id |-> i, text |-> texts[i]]]
    /\ bc_before = <<>>
    /\ bc_outcome = "none"
    /\ bc_result = <<>>
    /\ bc_previous = [outcome |-> "none", result |-> <<>>]
    /\ bc_renders = 0
    /\ AgeIdle /\ QtIdle /\ NavIdle /\ StIdle /\ MigIdle

NextBreadcrumb == Render

SpecBreadcrumb == InitBreadcrumb /\ [][NextBreadcrumb]_vars

InitNav == NavIdle /\ AgeIdle /\ QtIdle /\ BcIdle /\ StIdle /\ MigIdle

NextNav == NavLink \/ DropdownItem

SpecNav == InitNav /\ [][NextNav]_vars

InitStructure ==
    /\ form \in StructureForms
    /\ \/ \E n \in 0..MaxTokens : structure \in [1..n -> JsonTokens]
       \/ structure \in LongerTexts
    /\ st_outcome = "none"
    /\ st_message = ""
    /\ st_cleaned = <<>>
    /\ study_structure = NotYetStored
    /\ AgeIdle /\ QtIdle /\ BcIdle /\ NavIdle /\ MigIdle

NextStructure == SubmitStructure

SpecStructure == InitStructure /\ [][NextStructure]_vars

InitStudyTypes ==
    /\ \E n \in 0..MaxTypes : study_types \in [1..n -> TypeNames]
    /\ names_history = <<>>
    /\ SaltIdle
    /\ AgeIdle /\ QtIdle /\ BcIdle /\ NavIdle /\ StIdle

NextStudyTypes == UpdateStudyTypeNames \/ RevertStudyTypeNames

SpecStudyTypes == InitStudyTypes /\ [][NextStudyTypes]_vars

InitSalt ==
    /\ has_salt_field \in BOOLEAN
    /\ \E n \in 0..MaxStudies :
       \E salts \in [1..n -> IF has_salt_field THEN UuidValues ELSE {NoSalt}] :
            studies = [i \in 1..n |-> [pk |-> i, salt |-> salts[i]]]
    /\ salt_before = <<>>
    /\ salt_op = "none"
    /\ salt_generated = <<>>
    /\ salt_writes = <<>>
    /\ salt_ops = 0
    /\ TypesIdle
    /\ AgeIdle /\ QtIdle /\ BcIdle /\ NavIdle /\ StIdle

NextSalt == GenSalt \/ ReverseNoop

SpecSalt == InitSalt /\ [][NextSalt]_vars

(***************************************************************************)
(* Claims about BaseStudyForm.clean                                        *)
(***************************************************************************)
\* The age total scaled by 12 * 365, an exact integer.
ExactTotal(years, months, days) == 4380 * years + 365 * months + 12 * days

AllAgesPresent == \A k \in AgeFields : HasKey(cleaned_data, k)

ExactMinTotal ==
    ExactTotal(cleaned_data["min_age_years"], cleaned_data["min_age_months"],
               cleaned_data["min_age_days"])

ExactMaxTotal ==
    ExactTotal(cleaned_data["max_age_years"], cleaned_data["max_age_months"],
               cleaned_data["max_age_days"])

\* C1: for six non-negative integers, clean returns the cleaned data if and
\* only if min_years + min_months/12 + min_days/365 <= max_years +
\* max_months/12 + max_days/365 (equal totals are accepted), and otherwise
\* raises the validation error with the fixed message.
C1_AcceptsIffMinAtMostMax ==
    (AllAgesPresent /\ clean_outcome # "none") =>
        /\ (clean_outcome = "returned") <=> (ExactMinTotal <= ExactMaxTotal)
        /\ (clean_outcome # "returned") =>
                (clean_outcome = "ValidationError" /\ clean_message = AgeErrorMessage)

(***************************************************************************)
(* Claims about query_transform                                            *)
(***************************************************************************)
TruthyOverrides == {n \in OverrideNames : Truthy(KwargsGet(kwargs, n))}

\* The parameters the returned query string carries.
OutputParams == ParseQueryString(qt_output)

StrList(vals) == [j \in 1..Len(vals) |-> StrValue(Str(vals[j]))]

\* C2: query_transform is idempotent: applied with the same overrides to the
\* parameters of its own result, it returns the same query string.
C2_Idempotent ==
    (qt_pc = "rendered" /\ qt_round >= 2) => qt_output = qt_previous

C2_Witness ==
    /\ qt_pc = "rendered"
    /\ qt_round = 2
    /\ TruthyOverrides # {}
    /\ \E i \in 1..Len(GET) : Len(GET[i].vals) >= 2
    /\ qt_output = qt_previous

\* C3: an override that is omitted or falsy leaves the values of its key as
\* they were, and every key of the request that is not overridden appears in
\* the output with its values unchanged.
C3_FalsyAndOtherKeysUntouched ==
    qt_pc = "rendered" =>
        /\ \A n \in OverrideNames \ TruthyOverrides :
                GetList(OutputParams, KeyChars(n)) = StrList(GetList(GET, KeyChars(n)))
        /\ \A i \in 1..Len(GET) :
                (\A n \in TruthyOverrides : GET[i].key # KeyChars(n)) =>
                    GetList(OutputParams, GET[i].key) = StrList(GET[i].vals)

C3_Witness ==
    /\ qt_pc = "rendered"
    /\ "state" \in DOMAIN kwargs
    /\ ~Truthy(kwargs["state"])
    /\ GetList(GET, KeyChars("state")) # <<>>
    /\ GetList(OutputParams, KeyChars("state")) = GetList(GET, KeyChars("state"))
    /\ GetList(GET, KeyChars("q")) # <<>>
    /\ TruthyOverrides # {}

\* C4: every override that is present and truthy replaces its key: in the
\* output the key carries exactly the override value and none of its previous
\* values, also when it had several.
C4_TruthyOverrideReplaces ==
    qt_pc = "rendered" =>
        \A n \in TruthyOverrides :
            GetList(OutputParams, KeyChars(n)) = <<StrValue(Str(kwargs[n]))>>

C4_Witness ==
    /\ qt_pc = "rendered"
    /\ qt_round = 1
    /\ "state" \in TruthyOverrides
    /\ Len(GetList(GET, KeyChars("state"))) >= 2
    /\ GetList(OutputParams, KeyChars("state")) = <<StrValue(Str(kwargs["state"]))>>

(***************************************************************************)
(* Claims about BreadcrumbNode.render                                      *)
(***************************************************************************)
IsLink(item) == item.tag = "li"
IsCurrent(item) == item.tag = "li-current"
NotBlankNode(node) == ~IsBlank(node.text)

\* The linked items and the current-page items of the last render, in order.
RenderedLinks == SelectSeq(bc_result, IsLink)
RenderedCurrent == SelectSeq(bc_result, IsCurrent)

\* The nodes of the list the last render began with that are not blank.
NonBlankBefore == SelectSeq(bc_before, NotBlankNode)

\* C5: render makes the last node that is left once the blank nodes are
\* discarded the current page, and pairs the nodes before it two at a time, in
\* order, as (href, label) links; /a, A, /b, B, Current gives the links /a->A
\* and /b->B and the current item Current.
C5_LastIsCurrentRestPaired ==
    (bc_renders >= 1 /\ NonBlankBefore # <<>>) =>
        /\ bc_outcome = "returned"
        /\ Len(RenderedCurrent) = 1
        /\ RenderedCurrent[1].label = NonBlankBefore[Len(NonBlankBefore)]
        /\ Len(RenderedLinks) = (Len(NonBlankBefore) - 1) \div 2
        /\ \A k \in 1..Len(RenderedLinks) :
                /\ RenderedLinks[k].href = NonBlankBefore[2 * k - 1]
                /\ RenderedLinks[k].label = NonBlankBefore[2 * k]

\* C6: render discards every blank node first: no blank node is an href, a
\* label or the current-page item, wherever the blank nodes stand in the list.
C6_NoBlankNodeUsed ==
    (bc_renders >= 1 /\ bc_outcome = "returned") =>
        \A i \in 1..Len(bc_result) :
            /\ IsLink(bc_result[i]) =>
                    NotBlankNode(bc_result[i].href) /\ NotBlankNode(bc_result[i].label)
            /\ IsCurrent(bc_result[i]) => NotBlankNode(bc_result[i].label)

\* C7: when the number of nodes before the current-page node is odd, the last
\* of them is dropped: it is nowhere in the output, the pairs before it are all
\* rendered, and render returns.  (After render the nodelist holds exactly the
\* nodes before the current-page node.)
C7_OddTrailingNodeDropped ==
    (bc_renders >= 1 /\ Len(nodelist) % 2 = 1) =>
        /\ bc_outcome = "returned"
        /\ Len(RenderedLinks) = (Len(nodelist) - 1) \div 2
        /\ \A k \in 1..Len(RenderedLinks) :
                /\ RenderedLinks[k].href = nodelist[2 * k - 1]
                /\ RenderedLinks[k].label = nodelist[2 * k]
        /\ \A i \in 1..Len(bc_result) :
                /\ bc_result[i].href # nodelist[Len(nodelist)]
                /\ bc_result[i].label # nodelist[Len(nodelist)]

C7_Witness ==
    /\ bc_renders = 1
    /\ bc_outcome = "returned"
    /\ Len(nodelist) = 3
    /\ Len(RenderedLinks) = 1
    /\ Len(RenderedCurrent) = 1
    /\ \A i \in 1..Len(bc_before) : NotBlankNode(bc_before[i])

\* C8: rendering is pure: the node list is the same after render as before,
\* and a second render of the same node with the same context gives the same
\* output as the first.
C8_RenderIsPure ==
    /\ bc_renders >= 1 => nodelist = bc_before
    /\ bc_renders >= 2 => bc_previous = [outcome |-> bc_outcome, result |-> bc_result]

(***************************************************************************)
(* Claims about nav_link                                                   *)
(***************************************************************************)
\* The URL the last call resolved its target to, before any queryString.
ResolvedUrl ==
    IF nav_call.target.reverse_url
    THEN reverse(nav_call.target.url_name)
    ELSE nav_call.target.url_name

\* C9: nav_link marks the link active (adds the active classes and the
\* aria-current="page" attribute) if and only if the resolved URL, before any
\* queryString is appended, equals the request path exactly.
C9_ActiveIffUrlEqualsPath ==
    nav_outcome = "returned" =>
        IF ResolvedUrl = nav_call.request_path
        THEN /\ nav_html.classes = nav_call.html_classes \o ActiveClasses
             /\ nav_html.aria_current = AriaCurrentPage
        ELSE /\ nav_html.classes = nav_call.html_classes
             /\ nav_html.aria_current = ""

C9_Witness ==
    /\ nav_outcome = "returned"
    /\ nav_call.queryString # <<>>
    /\ ResolvedUrl = nav_call.request_path
    /\ nav_html.href # nav_call.request_path
    /\ nav_html.aria_current = AriaCurrentPage

(***************************************************************************)
(* Claims about clean_structure                                            *)
(***************************************************************************)
\* JSON as RFC 8259 defines it: the submitted text decodes without the
\* decoder's NaN extension.
StrictJson == JsonDecode(structure, FALSE)

\* C10: for every submitted text, the empty one included: invalid JSON is
\* rejected with the form's fixed message and the record is not saved; valid
\* JSON is accepted and returned as its parsed value.
C10_InvalidJsonRejected ==
    st_outcome # "none" =>
        IF StrictJson.ok
        THEN /\ st_outcome = "returned"
             /\ st_cleaned = StrictJson.value
        ELSE /\ st_outcome = "ValidationError"
             /\ st_message = InvalidJsonMessage(form)
             /\ study_structure = NotYetStored

(***************************************************************************)
(* Claims about the study-type rename migration                            *)
(***************************************************************************)
\* The table the i-th call left.
TableAfter(i) ==
    IF i < Len(names_history) THEN names_history[i + 1].before ELSE study_types

OtherKey(key) == IF key = "old" THEN "new" ELSE "old"

RowsNamed(table, name) == {pk \in DOMAIN table : table[pk] = name}

\* The catalog holds the two display names of this key: one row has the EFP
\* name, one the External name, and no row has a name of the other key.
HoldsNames(table, key) ==
    /\ Cardinality(RowsNamed(table, NAMES.efp[key])) = 1
    /\ Cardinality(RowsNamed(table, NAMES.external[key])) = 1
    /\ RowsNamed(table, NAMES.efp[OtherKey(key)]) = {}
    /\ RowsNamed(table, NAMES.external[OtherKey(key)]) = {}

\* C11: the rename is reversible in both directions.  When a call is followed
\* by the call of the other direction (update then revert, or revert then
\* update) and the catalog held the two names the first call renames, both
\* calls return; and whenever the second returns, the whole table is again
\* what it was before the first: both rows have their names back and no
\* other row has changed.
C11_RoundTripRestoresNames ==
    \A i \in 1..(Len(names_history) - 1) :
        LET first == names_history[i]
            second == names_history[i + 1]
        IN  first.call # second.call =>
                /\ HoldsNames(first.before, first.from_key) =>
                        first.outcome = "returned" /\ second.outcome = "returned"
                /\ second.outcome = "returned" => TableAfter(i + 1) = first.before

C11_Witness ==
    /\ Len(names_history) = 3
    /\ names_history[1].call = "update"
    /\ names_history[2].call = "revert"
    /\ names_history[3].call = "update"
    /\ \A i \in 1..3 : names_history[i].outcome = "returned"
    /\ HoldsNames(names_history[1].before, "old")
    /\ RowsNamed(names_history[1].before, "Other") # {}
    /\ names_history[2].before # names_history[1].before
    /\ names_history[3].before = names_history[1].before
    /\ study_types = names_history[2].before

\* C12: when no row has the source name for EFP, or none has the source
\* name for External, the call does not return: the lookup's exception
\* leaves the function (DoesNotExist when it is the EFP row that is absent)
\* and no migration runs after it.  This holds for update and for revert.
C12_LookupFailurePropagates ==
    \A i \in 1..Len(names_history) :
        LET c == names_history[i]
            efp_absent == RowsNamed(c.before, NAMES.efp[c.from_key]) = {}
            external_absent == RowsNamed(c.before, NAMES.external[c.from_key]) = {}
        IN  efp_absent \/ external_absent =>
                /\ c.outcome \in {"DoesNotExist", "MultipleObjectsReturned"}
                /\ efp_absent => c.outcome = "DoesNotExist"
                /\ i = Len(names_history)

C12_Witness ==
    /\ Len(names_history) = 2
    /\ names_history[1].call = "update"
    /\ names_history[1].outcome = "returned"
    /\ names_history[2].call = "update"
    /\ names_history[2].outcome = "DoesNotExist"
    /\ RowsNamed(names_history[2].before, NAMES.efp.old) = {}

\* C14: a call that ends in a lookup failure has saved nothing: the table it
\* leaves is the table it found.
C14_FailedCallSavesNothing ==
    \A i \in 1..Len(names_history) :
        names_history[i].outcome # "returned" =>
            TableAfter(i) = names_history[i].before

(***************************************************************************)
(* Claims about the salt migration                                         *)
(***************************************************************************)
\* C13: after gen_salt on a Study model that has the salt field, every row
\* that was in the table when it began has been saved once, in queryset
\* order, each with the value of a uuid4 call of its own, and holds that
\* value; without the salt field gen_salt generates and saves nothing; the
\* reverse operation leaves every salt as it was.
C13_GenSaltWritesEveryRow ==
    /\ salt_op = "gen_salt" /\ has_salt_field =>
        /\ Len(studies) = Len(salt_before)
        /\ Len(salt_generated) = Len(salt_before)
        /\ Len(salt_writes) = Len(salt_before)
        /\ \A i \in 1..Len(salt_before) :
            /\ salt_writes[i] = [pk |-> salt_before[i].pk, salt |-> salt_generated[i]]
            /\ studies[i] = salt_writes[i]
    /\ salt_op = "gen_salt" /\ ~has_salt_field =>
        /\ studies = salt_before
        /\ salt_generated = <<>>
        /\ salt_writes = <<>>
    /\ salt_op = "noop" =>
        /\ studies = salt_before
        /\ salt_writes = <<>>

C13_Witness ==
    /\ salt_op = "gen_salt"
    /\ has_salt_field
    /\ Len(salt_before) = MaxStudies
    /\ \A i \in 1..Len(salt_before) : studies[i].salt # salt_before[i].salt
    /\ \E i, j \in 1..Len(studies) : studies[i].salt # studies[j].salt
    /\ Len(salt_writes) = MaxStudies

(***************************************************************************)
(* Further claims about BaseStudyForm.clean and nav_link                   *)
(***************************************************************************)
\* C15: for any submission, also one whose cleaned data lacks some of the six
\* age components, clean ends in one of two ways only: it returns the cleaned
\* data or it raises a ValidationError.
C15_ReturnsOrValidationError ==
    clean_outcome \in {"none", "returned", "ValidationError"}

HasClass(classes, class) == \E i \in 1..Len(classes) : classes[i] = class

\* C16: across any sequence of nav_link and dropdown_item calls, a call's
\* output carries the classes "active" and "btn-secondary" only when that
\* call's own URL equals its request path, also when the same list is passed
\* as html_classes to several calls; and the caller's list is left as it was.
C16_ActiveMarkerDoesNotLeak ==
    /\ nav_outcome = "returned" /\ ResolvedUrl # nav_call.request_path =>
        /\ ~HasClass(nav_html.classes, "active")
        /\ ~HasClass(nav_html.classes, "btn-secondary")
    /\ caller_classes = <<"nav-link">>

====
